---- MODULE Spec2Model ----
(***************************************************************************)
(* Model of the scoring endpoint of src/api.py: one call of predict() is   *)
(* followed from the reindexing of the client mapping, through the two     *)
(* oracle calls (model.predict_proba, explainer.shap_values), the          *)
(* extraction of the positive-class SHAP vector, the length check and the  *)
(* ranking/explanation step, to the HTTP response.                         *)
(*                                                                         *)
(* Numbers.  A SHAP weight is an integer counting ten-thousandths (1e-4),  *)
(* a probability an integer counting tenths.  Python's 0-based indices are *)
(* kept in the operator arguments; sequences are 1-based inside.           *)
(***************************************************************************)
EXTENDS Integers, Sequences, FiniteSets, TLC

\* ------------------------------------------------------------------ bounds
\* Weights of the fully enumerated rank-1 outputs range over -MaxWeight..MaxWeight.
MaxWeight == 1
\* Largest size of the instance axis of an oracle array.
MaxSamples == 2
\* Largest size of the class axis of a rank-3 oracle array.
MaxClasses == 2
\* Longest list the explanation oracle returns.
MaxListLen == 3
\* Largest number of canonical features left out of a client mapping.
MaxMissing == 1
\* Number of predict() calls running at the same time in the worker threads.
NumThreads == 2
\* Number of rows of data/clients.csv the dashboard offers.
NumClients == 2

\* ------------------------------------------------------- program constants
expected_feature_order ==
    <<"age", "revenu", "anciennete", "nb_incidents", "score_credit">>

N == Len(expected_feature_order)

\* ------------------------------------------------------------ numpy arrays
\* An ndarray is [kind |-> "ndarray", shape |-> <<d1, ..., dr>>, data |-> the
\* cells in row-major order].  Anything that is not an ndarray is Other.
Other == [kind |-> "other"]
None == [kind |-> "None"]

RECURSIVE Prod(_)
Prod(s) == IF s = <<>> THEN 1 ELSE Head(s) * Prod(Tail(s))

NdArray(shape, data) == [kind |-> "ndarray", shape |-> shape, data |-> data]

IsNdArray(x) == x.kind = "ndarray"

ndim(a) == Len(a.shape)

\* a.shape[k], k counted from 0
ShapeAt(a, k) == a.shape[k + 1]

\* a[0] of an array of rank >= 1 with a.shape[0] > 0: the first sub-array
Index0(a) ==
    LET sub == Tail(a.shape)
    IN  NdArray(sub, [i \in 1..Prod(sub) |-> a.data[i]])

\* Bug: the axes read as (instance, class, feature), a[0, 1, :].
Slice0All1_AxesSwapped(a) ==
    LET d2 == a.shape[3]
    IN  NdArray(<<d2>>, [k \in 1..d2 |-> a.data[d2 + k]])

\* a[0, :, 1] of a rank-3 array with shape[0] > 0 and shape[2] > 1
Slice0All1(a) ==
    LET d1 == a.shape[2]
        d2 == a.shape[3]
    IN  NdArray(<<d1>>, [j \in 1..d1 |-> a.data[(j - 1) * d2 + 2]])

\* len(a) of an array of rank >= 1
len(a) == a.shape[1]

\* a[i] of a rank-1 array, i counted from 0
At(a, i) == a.data[i + 1]

\* list[i], i counted from 0
Item(l, i) == l.items[i + 1]

\* ------------------------------------------------------------ pure helpers
Abs(x) == IF x < 0 THEN -x ELSE x

Range(s) == {s[i] : i \in 1..Len(s)}

Reverse(s) == [i \in 1..Len(s) |-> s[Len(s) + 1 - i]]

\* s rotated to the left by k places
Rot(s, k) == [i \in 1..Len(s) |-> s[((i - 1 + k) % Len(s)) + 1]]

\* --------------------------------------------------- inputs of one request
\* Two assignments of values to the five fields of ClientData (the first one
\* is the mapping {age:40, revenu:50000.0, anciennete:5, nb_incidents:0,
\* score_credit:700}).
ClientValues ==
    { [age |-> 40, revenu |-> 50000, anciennete |-> 5, nb_incidents |-> 0,
       score_credit |-> 700],
      [age |-> 700, revenu |-> 0, anciennete |-> 40, nb_incidents |-> 5,
       score_credit |-> 23] }

\* Key orders of the mapping handed to predict: the rotations of the canonical
\* order and of its reverse.
KeyOrders ==
    {Rot(expected_feature_order, k) : k \in 0..(N - 1)}
        \cup {Rot(Reverse(expected_feature_order), k) : k \in 0..(N - 1)}

\* data.dict(): the items of the mapping in key order, some keys left out.
ClientInputs ==
    { [i \in 1..Len(keys) |-> [key |-> keys[i], value |-> v[keys[i]]]] :
        <<keys, v>> \in
            { <<SelectSeq(o, LAMBDA k : k \notin gone), w>> :
                <<o, gone, w>> \in
                    KeyOrders
                    \X {g \in SUBSET Range(expected_feature_order) :
                            Cardinality(g) <= MaxMissing}
                    \X ClientValues } }

\* Cell i (counted from 0) of an oracle array filled from a seed: the cells of
\* one array differ pairwise in magnitude, and both signs and zero occur.
FillCell(seed, i) ==
    IF i % 3 = 1 THEN -(10 * (i + seed)) ELSE 10 * (i + seed)

MkArray(shape, seed) ==
    NdArray(shape, [i \in 1..Prod(shape) |-> FillCell(seed, i - 1)])

\* [[0.1, -0.2, 0.05, 0.0, 0.15]]
ScenarioArray == NdArray(<<1, 5>>, <<1000, -2000, 500, 0, 1500>>)

Weights == (-MaxWeight)..MaxWeight

FeatureDims == {N - 1, N}

\* The ndarrays explainer.shap_values(df) may return, ranks 0 to 4.
ExplainerArrays ==
    {NdArray(<<N>>, d) : d \in [1..N -> Weights]}
        \cup {MkArray(<<f>>, 1) : f \in {0, N - 1, N + 1}}
        \cup {MkArray(<<s, f>>, 2) : s \in 0..MaxSamples, f \in FeatureDims}
        \cup {MkArray(<<s, f, c>>, 3) :
                s \in 0..MaxSamples, f \in FeatureDims, c \in 1..MaxClasses}
        \cup {MkArray(<<1, 2, N>>, 3), MkArray(<<>>, 4),
              MkArray(<<1, N, 1, 1>>, 4), MkArray(<<1, N, 2, 1>>, 4)}

\* The elements of a list returned by the explanation oracle.
ListItems ==
    {Other, MkArray(<<N>>, 1), MkArray(<<N - 1>>, 5), MkArray(<<2, N>>, 2),
     MkArray(<<0, N>>, 0), MkArray(<<1, N, 2>>, 3)}

ExplainerLists ==
    {[kind |-> "list", items |-> l] :
        l \in UNION {[1..n -> ListItems] : n \in 0..MaxListLen}}
        \cup {[kind |-> "list", items |-> <<MkArray(<<1, N>>, 6), ScenarioArray>>]}

\* Every value explainer.shap_values(df) may return.
RawOutputs == ExplainerArrays \cup ExplainerLists \cup {Other}

\* Probabilities, in tenths.
Probas == {3, 7}

\* The values model.predict_proba(df) may return.
ProbaOutputs ==
    {NdArray(<<1, 2>>, <<10 - p, p>>) : p \in Probas}
        \cup {NdArray(<<1>>, <<p>>) : p \in Probas}
        \cup {NdArray(<<2, 2>>, <<10 - p, p, p, 10 - p>>) : p \in Probas}
        \cup {NdArray(<<1, 1>>, <<7>>), NdArray(<<0, 2>>, <<>>),
              NdArray(<<0>>, <<>>), NdArray(<<>>, <<7>>),
              NdArray(<<1, 2, 1>>, <<3, 7>>), Other}

\* ------------------------------------------------------- steps of predict()
\* pd.DataFrame([data.dict()]): one row, the columns in the mapping's key order.
DataFrame(items) ==
    [columns |-> [i \in 1..Len(items) |-> items[i].key],
     row |-> [i \in 1..Len(items) |-> items[i].value]]

\* The labels of `order` that are no column of frame, in the order of `order`.
MissingColumns(frame, order) ==
    SelectSeq(order, LAMBDA k : k \notin Range(frame.columns))

\* Bug: the frame is used as received, its columns in the mapping's key order.
Reindex_KeyOrder(frame, order) == frame

\* frame[order] with every label of `order` a column: the columns of frame
\* picked by label, in the order of `order`.
Reindex(frame, order) ==
    [columns |-> order,
     row |-> [i \in 1..Len(order) |->
                frame.row[CHOOSE j \in 1..Len(frame.columns) :
                            frame.columns[j] = order[i]]]]

\* The try block around model.predict_proba: the score, or Raised when the
\* block raises (a value without shape, an index out of range, the ValueError
\* of the unexpected shape).
Raised == [kind |-> "raised"]

Score(p) == [kind |-> "score", value |-> p]

ExtractScore(proba) ==
    IF ~IsNdArray(proba) THEN Raised
    ELSE IF ndim(proba) = 2 /\ ShapeAt(proba, 1) > 1
         THEN IF ShapeAt(proba, 0) > 0
              THEN Score(At(Index0(proba), 1))
              ELSE Raised
    ELSE IF ndim(proba) = 1
         THEN IF ShapeAt(proba, 0) > 0 THEN Score(At(proba, 0)) ELSE Raised
    ELSE Raised

\* The rank-1/rank-2 handling of one element of a list.
ExtractFromItem(a) ==
    IF ndim(a) = 2 /\ ShapeAt(a, 0) > 0 THEN Index0(a)
    ELSE IF ndim(a) = 1 THEN a
    ELSE None

\* Bug: the first class is read before the positive class.
ExtractFromList_Class0First(raw) ==
    IF Len(raw.items) > 0 /\ IsNdArray(Item(raw, 0))
        THEN ExtractFromItem(Item(raw, 0))
    ELSE IF Len(raw.items) = 2 /\ IsNdArray(Item(raw, 1))
        THEN ExtractFromItem(Item(raw, 1))
    ELSE None

\* Bug: the fallback reads the last element of the list, not element 0.
ExtractFromList_FallbackLast(raw) ==
    IF Len(raw.items) = 2 /\ IsNdArray(Item(raw, 1))
        THEN ExtractFromItem(Item(raw, 1))
    ELSE IF Len(raw.items) > 0 /\ IsNdArray(Item(raw, Len(raw.items) - 1))
        THEN ExtractFromItem(Item(raw, Len(raw.items) - 1))
    ELSE None

ExtractFromList(raw) ==
    IF Len(raw.items) = 2 /\ IsNdArray(Item(raw, 1))
        THEN ExtractFromItem(Item(raw, 1))
    ELSE IF Len(raw.items) > 0 /\ IsNdArray(Item(raw, 0))
        THEN ExtractFromItem(Item(raw, 0))
    ELSE None

\* Bug: no branch for a rank-3 array.
ExtractFromArray_NoRank3(raw) ==
    IF ndim(raw) = 2
        THEN IF ShapeAt(raw, 0) > 0 THEN Index0(raw) ELSE None
    ELSE IF ndim(raw) = 1 THEN raw
    ELSE None

\* Bug: an array of any other rank is flattened instead of refused.
ExtractFromArray_Flatten(raw) ==
    IF ndim(raw) = 3
        THEN IF ShapeAt(raw, 0) > 0 /\ ShapeAt(raw, 2) > 1
             THEN Slice0All1(raw)
             ELSE None
    ELSE IF ndim(raw) = 2
        THEN IF ShapeAt(raw, 0) > 0 THEN Index0(raw) ELSE None
    ELSE NdArray(<<Prod(raw.shape)>>, raw.data)

ExtractFromArray(raw) ==
    IF ndim(raw) = 3
        THEN IF ShapeAt(raw, 0) > 0 /\ ShapeAt(raw, 2) > 1
             THEN Slice0All1(raw)
             ELSE None
    ELSE IF ndim(raw) = 2
        THEN IF ShapeAt(raw, 0) > 0 THEN Index0(raw) ELSE None
    ELSE IF ndim(raw) = 1 THEN raw
    ELSE None

\* Step 7: shap_values after the dispatch on type and rank, None when no
\* branch assigned it.
ExtractShap(raw) ==
    IF raw.kind = "list" THEN ExtractFromList(raw)
    ELSE IF IsNdArray(raw) THEN ExtractFromArray(raw)
    ELSE None

\* Step 9: the items of shap_impacts in insertion order.
ShapImpacts(names, values) ==
    [i \in 1..Len(names) |-> [feature |-> names[i], impact |-> At(values, i - 1)]]

\* key=lambda x: abs(x[1])
SortKey(item) == Abs(item.impact)

\* Bug: an item goes before the items of equal key (the ties come out reversed).
InsertSorted_TiesReversed(x, done) ==
    LET before == SelectSeq(done, LAMBDA y : SortKey(y) > SortKey(x))
        after == SelectSeq(done, LAMBDA y : SortKey(y) <= SortKey(x))
    IN  before \o <<x>> \o after

\* sorted(..., reverse=True) puts a larger key first and keeps the items of
\* equal key in their order: x goes behind every item whose key is >= its own.
InsertSorted(x, done) ==
    LET before == SelectSeq(done, LAMBDA y : SortKey(y) >= SortKey(x))
        after == SelectSeq(done, LAMBDA y : SortKey(y) < SortKey(x))
    IN  before \o <<x>> \o after

RECURSIVE SortInto(_, _)
SortInto(todo, done) ==
    IF todo = <<>> THEN done
    ELSE SortInto(Tail(todo), InsertSorted(Head(todo), done))

\* Step 10
SortedImpacts(items) == SortInto(items, <<>>)

\* Bug: a zero weight is called positive.
Sign_ZeroPositive(impact) == IF impact >= 0 THEN "positivement" ELSE "négativement"

\* "positivement" if impact > 0 else "négativement"
Sign(impact) == IF impact > 0 THEN "positivement" ELSE "négativement"

\* f"{impact:.3f}": the sign of the weight and its magnitude rounded to
\* thousandths (half to even; no weight drawn here lies on a half).
Format3f(impact) ==
    LET m == Abs(impact)
        q == m \div 10
        r == m % 10
        up == r > 5 \/ (r = 5 /\ q % 2 = 1)
    IN  [minus |-> impact < 0, thousandths |-> IF up THEN q + 1 ELSE q]

\* One explanation string, by its three variable parts.
Explanation(item) ==
    [feature |-> item.feature, direction |-> Sign(item.impact),
     poids |-> Format3f(item.impact)]

\* Step 11
ExplanationList(sorted) == [i \in 1..Len(sorted) |-> Explanation(sorted[i])]

\* -------------------------------------------------------------- responses
NoResponse == [status |-> 0]

\* raise HTTPException(status_code=..., detail=...): the detail is kept by the
\* step that wrote it and by the values its message interpolates.
HTTPException(status_code, detail) == [status |-> status_code, detail |-> detail]

\* The message of the KeyError handler: it interpolates the KeyError, whose
\* text lists the labels that are no column.
KeyErrorDetail(missing) == [stage |-> "reindex", missing |-> missing]

\* Bug: the missing feature is reported as a server fault.
ReindexError_ServerFault(missing) == HTTPException(500, KeyErrorDetail(missing))

ReindexError(missing) == HTTPException(400, KeyErrorDetail(missing))

PredictionError == HTTPException(500, [stage |-> "predict_proba"])

ShapError == HTTPException(500, [stage |-> "shap_values"])

ExtractionError == HTTPException(500, [stage |-> "extraction"])

\* Bug: the message states the number of feature names twice.
MismatchDetail_OneCount(names, values) ==
    [stage |-> "length", n_names |-> Len(names), n_values |-> Len(names)]

\* The message interpolates len(feature_names) and len(shap_values).
MismatchDetail(names, values) ==
    [stage |-> "length", n_names |-> Len(names), n_values |-> len(values)]

MismatchError(names, values) == HTTPException(500, MismatchDetail(names, values))

\* The returned dict.
Success(s, impacts, explanations) ==
    [status |-> 200, score |-> s, shap_values |-> impacts,
     explanations |-> explanations]

\* ------------------------------------------------------------------ state
VARIABLES
    pc,               \* the step predict() is at
    data,             \* data.dict(), the items of the client mapping
    df,               \* the DataFrame
    score,            \* None or the positive-class probability
    raw_shap_output,  \* None or what explainer.shap_values returned
    shap_values,      \* None or the extracted vector
    feature_names,    \* df.columns.tolist()
    sorted_impacts,   \* the ranked (feature, impact) items
    response,         \* what the request ended with
    calls,            \* the oracle calls of the request, with their argument
    server,           \* the step of load_resources, then serving or failed
    model,            \* the global model
    explainer,        \* the global explainer
    files,            \* app/model.pkl and app/explainer.pkl on disk
    threads,          \* the locals of the predict() calls running concurrently
    selected_id,      \* dashboard: the value of the client_selector widget
    session,          \* dashboard: st.session_state, a mapping from its keys
    display,          \* dashboard: what the last run of the script rendered
    last_success,     \* history: the last successful scoring, None before it
    last_event        \* history: what started the last run of the script

\* The locals of the predict() call that is followed step by step.
request ==
    <<pc, data, df, score, raw_shap_output, shap_values, feature_names,
      sorted_impacts, response, calls>>

\* The process: its startup and its two globals.
process == <<server, model, explainer, files>>

\* What a step of the followed request leaves alone.
\* The dashboard and the history of its events.
dashboard == <<selected_id, session, display, last_success, last_event>>

not_request == <<process, threads, dashboard>>

\* What a step of the startup leaves alone.
not_process == <<request, threads, dashboard>>

vars == <<request, process, threads, dashboard>>

\* What joblib.load returns for a file it can load.
Loaded(what) == [kind |-> "loaded", what |-> what]

\* A file is absent, present but not loadable (joblib.load raises), or fine.
FileStates == {"absent", "unloadable", "ok"}

InitRequest ==
    /\ pc = "receive"
    /\ data = <<>>
    /\ df = DataFrame(<<>>)
    /\ score = None
    /\ raw_shap_output = None
    /\ shap_values = None
    /\ feature_names = <<>>
    /\ sorted_impacts = <<>>
    /\ response = NoResponse
    /\ calls = <<>>

\* Module import: model = None, explainer = None; the startup handler has
\* not run yet.
InitProcess ==
    /\ server = "check_files"
    /\ model = None
    /\ explainer = None
    /\ files \in [model : FileStates, explainer : FileStates]

Threads == 1..NumThreads

\* The locals of a predict() call that has not started, with the answers the
\* two oracles gave it (None: not asked).
ThreadInit ==
    [pc |-> "receive", data |-> <<>>, df |-> DataFrame(<<>>),
     prediction_proba |-> None, score |-> None, shap_answer |-> None,
     raw_shap_output |-> None, shap_values |-> None, feature_names |-> <<>>,
     response |-> NoResponse]

InitThreads == threads = [t \in Threads |-> ThreadInit]

\* The dashboard before the first run of its script: an empty session state,
\* the selectbox on its first option.
InitDashboard ==
    /\ selected_id = 0
    /\ session = <<>>
    /\ display = [kind |-> "none"]
    /\ last_success = None
    /\ last_event = "start"

Init == InitRequest /\ InitProcess /\ InitThreads /\ InitDashboard

\* Both os.path.exists checks pass.
CheckFilesOk ==
    /\ server = "check_files"
    /\ files.model # "absent"
    /\ files.explainer # "absent"
    /\ server' = "load_model"
    /\ UNCHANGED <<model, explainer, files, not_process>>

\* A file is not there: RuntimeError, the startup fails.
CheckFilesFault ==
    /\ server = "check_files"
    /\ files.model = "absent" \/ files.explainer = "absent"
    /\ server' = "failed"
    /\ UNCHANGED <<model, explainer, files, not_process>>

\* model = joblib.load(MODEL_PATH)
LoadModelOk ==
    /\ server = "load_model"
    /\ files.model = "ok"
    /\ model' = Loaded("model")
    /\ server' = "load_explainer"
    /\ UNCHANGED <<explainer, files, not_process>>

\* joblib.load(MODEL_PATH) raises: RuntimeError, the startup fails.
LoadModelFault ==
    /\ server = "load_model"
    /\ files.model # "ok"
    /\ server' = "failed"
    /\ UNCHANGED <<model, explainer, files, not_process>>

\* Bug: the exception of the load is printed and not raised again.
LoadExplainerFault_Swallowed ==
    /\ server = "load_explainer"
    /\ files.explainer # "ok"
    /\ server' = "serving"
    /\ UNCHANGED <<model, explainer, files, not_process>>

\* explainer = joblib.load(EXPLAINER_PATH)
LoadExplainerOk ==
    /\ server = "load_explainer"
    /\ files.explainer = "ok"
    /\ explainer' = Loaded("explainer")
    /\ server' = "serving"
    /\ UNCHANGED <<model, files, not_process>>

\* joblib.load(EXPLAINER_PATH) raises: RuntimeError, the startup fails; the
\* model stays assigned.
LoadExplainerFault ==
    /\ server = "load_explainer"
    /\ files.explainer # "ok"
    /\ server' = "failed"
    /\ UNCHANGED <<model, explainer, files, not_process>>

Call(oracle) == [oracle |-> oracle, arg |-> df]

\* predict(data) is entered: the mapping becomes a one-row DataFrame.
Receive ==
    /\ server = "serving"
    /\ pc = "receive"
    /\ \E d \in ClientInputs :
        /\ data' = d
        /\ df' = DataFrame(d)
    /\ pc' = "reindex"
    /\ UNCHANGED <<score, raw_shap_output, shap_values, feature_names,
                   sorted_impacts, response, calls,
                   not_request>>

\* df = df[expected_feature_order]
ReindexOk ==
    /\ pc = "reindex"
    /\ MissingColumns(df, expected_feature_order) = <<>>
    /\ df' = Reindex(df, expected_feature_order)
    /\ pc' = "predict_proba"
    /\ UNCHANGED <<data, score, raw_shap_output, shap_values, feature_names,
                   sorted_impacts, response, calls,
                   not_request>>

\* except KeyError: HTTP 400
ReindexKeyError ==
    /\ pc = "reindex"
    /\ MissingColumns(df, expected_feature_order) # <<>>
    /\ response' = ReindexError(MissingColumns(df, expected_feature_order))
    /\ pc' = "done"
    /\ UNCHANGED <<data, df, score, raw_shap_output, shap_values,
                   feature_names, sorted_impacts, calls,
                   not_request>>

\* Step 5, the try block succeeds.
PredictOk ==
    /\ pc = "predict_proba"
    /\ model # None
    /\ \E out \in ProbaOutputs :
        /\ ExtractScore(out) # Raised
        /\ score' = ExtractScore(out)
    /\ calls' = Append(calls, Call("model"))
    /\ pc' = "shap_values"
    /\ UNCHANGED <<data, df, raw_shap_output, shap_values, feature_names,
                   sorted_impacts, response,
                   not_request>>

\* Bug: the fault of step 5 is printed and not raised; the request goes on
\* without a score.
PredictFault_NotRaised ==
    /\ pc = "predict_proba"
    /\ model = None
        \/ \E out \in ProbaOutputs \cup {Raised} : ExtractScore(out) = Raised
    /\ calls' = Append(calls, Call("model"))
    /\ pc' = "shap_values"
    /\ UNCHANGED <<data, df, score, raw_shap_output, shap_values,
                   feature_names, sorted_impacts, response, not_request>>

\* Step 5, the oracle raises or its result has no usable shape: HTTP 500.
PredictFault ==
    /\ pc = "predict_proba"
    /\ model = None
        \/ \E out \in ProbaOutputs \cup {Raised} : ExtractScore(out) = Raised
    /\ calls' = Append(calls, Call("model"))
    /\ response' = PredictionError
    /\ pc' = "done"
    /\ UNCHANGED <<data, df, score, raw_shap_output, shap_values,
                   feature_names, sorted_impacts,
                   not_request>>

\* Step 6, explainer.shap_values(df) returns.
ExplainOk ==
    /\ pc = "shap_values"
    /\ explainer # None
    /\ \E out \in RawOutputs : raw_shap_output' = out
    /\ calls' = Append(calls, Call("explainer"))
    /\ pc' = "extract"
    /\ UNCHANGED <<data, df, score, shap_values, feature_names, sorted_impacts,
                   response,
                   not_request>>

\* Step 6, explainer.shap_values(df) raises: HTTP 500.
ExplainFault ==
    /\ pc = "shap_values"
    /\ calls' = Append(calls, Call("explainer"))
    /\ response' = ShapError
    /\ pc' = "done"
    /\ UNCHANGED <<data, df, score, raw_shap_output, shap_values,
                   feature_names, sorted_impacts,
                   not_request>>

\* Step 7 assigned shap_values; step 8 reads the feature names.
ExtractOk ==
    /\ pc = "extract"
    /\ ExtractShap(raw_shap_output) # None
    /\ shap_values' = ExtractShap(raw_shap_output)
    /\ feature_names' = df.columns
    /\ pc' = "check_length"
    /\ UNCHANGED <<data, df, score, raw_shap_output, sorted_impacts, response,
                   calls,
                   not_request>>

\* Step 7 left shap_values None: HTTP 500.
ExtractFault ==
    /\ pc = "extract"
    /\ ExtractShap(raw_shap_output) = None
    /\ response' = ExtractionError
    /\ pc' = "done"
    /\ UNCHANGED <<data, df, score, raw_shap_output, shap_values,
                   feature_names, sorted_impacts, calls,
                   not_request>>

\* if len(feature_names) != len(shap_values): HTTP 500.
LengthMismatch ==
    /\ pc = "check_length"
    /\ Len(feature_names) # len(shap_values)
    /\ response' = MismatchError(feature_names, shap_values)
    /\ pc' = "done"
    /\ UNCHANGED <<data, df, score, raw_shap_output, shap_values,
                   feature_names, sorted_impacts, calls,
                   not_request>>

\* Steps 9 to 12: the impacts, their ranking, the explanations, the response.
Report ==
    /\ pc = "check_length"
    /\ Len(feature_names) = len(shap_values)
    /\ sorted_impacts' = SortedImpacts(ShapImpacts(feature_names, shap_values))
    /\ response' =
        Success(score, ShapImpacts(feature_names, shap_values),
                ExplanationList(sorted_impacts'))
    /\ pc' = "done"
    /\ UNCHANGED <<data, df, score, raw_shap_output, shap_values,
                   feature_names, calls,
                   not_request>>

\* The request is over; the locals of predict() are gone with it.
NextRequest ==
    /\ pc = "done"
    /\ pc' = "receive"
    /\ data' = <<>>
    /\ df' = DataFrame(<<>>)
    /\ score' = None
    /\ raw_shap_output' = None
    /\ shap_values' = None
    /\ feature_names' = <<>>
    /\ sorted_impacts' = <<>>
    /\ response' = NoResponse
    /\ calls' = <<>>
    /\ UNCHANGED not_request

Next ==
    \/ CheckFilesOk
    \/ CheckFilesFault
    \/ LoadModelOk
    \/ LoadModelFault
    \/ LoadExplainerOk
    \/ LoadExplainerFault
    \/ Receive
    \/ ReindexOk
    \/ ReindexKeyError
    \/ PredictOk
    \/ PredictFault
    \/ ExplainOk
    \/ ExplainFault
    \/ ExtractOk
    \/ ExtractFault
    \/ LengthMismatch
    \/ Report
    \/ NextRequest

Spec == Init /\ [][Next]_vars

\* ----------------------------------------------------------------- claims
\* Cells of an array by their indices (counted from 0), row-major.
Cell2(a, i, j) == a.data[i * a.shape[2] + j + 1]

Cell3(a, i, j, k) == a.data[(i * a.shape[2] + j) * a.shape[3] + k + 1]

\* Row i of a rank-2 array, as a rank-1 array.
Row(a, i) == NdArray(<<a.shape[2]>>, [j \in 1..a.shape[2] |-> Cell2(a, i, j - 1)])

\* The explanation oracle has answered and step 7 has run.
Extracted == raw_shap_output # None /\ pc \in {"check_length", "done"}

\* The request ended after the explanation oracle answered.
Answered == raw_shap_output # None /\ pc = "done"

\* A list of the first variant: two elements, element 1 an ndarray.
TwoClassList(raw) ==
    raw.kind = "list" /\ Len(raw.items) = 2 /\ IsNdArray(Item(raw, 1))

\* A list of the second variant: any other non-empty list, element 0 an ndarray.
OtherList(raw) ==
    /\ raw.kind = "list"
    /\ ~TwoClassList(raw)
    /\ Len(raw.items) > 0
    /\ IsNdArray(Item(raw, 0))

\* The array a variant takes its vector from.
Consulted(raw) ==
    IF TwoClassList(raw) THEN Item(raw, 1)
    ELSE IF OtherList(raw) THEN Item(raw, 0)
    ELSE raw

\* The variants of the extraction policy.
EnumeratedVariant(raw) ==
    \/ (TwoClassList(raw) \/ OtherList(raw)) /\ ndim(Consulted(raw)) \in {1, 2}
    \/ IsNdArray(raw) /\ ndim(raw) \in {1, 2, 3}

\* An enumerated variant carrying one value per canonical feature: at least
\* one instance, n features, and for a rank-3 array at least two classes.
VariantFor(raw, n) ==
    /\ EnumeratedVariant(raw)
    /\ LET a == Consulted(raw)
       IN  \/ ndim(a) = 1 /\ a.shape = <<n>>
           \/ ndim(a) = 2 /\ a.shape[1] >= 1 /\ a.shape[2] = n
           \/ ndim(a) = 3 /\ a.shape[1] >= 1 /\ a.shape[2] = n /\ a.shape[3] >= 2

\* C1: with N canonical features, a request whose raw attribution output is
\* an enumerated variant carrying N features (at least one instance; at least
\* two classes for a rank-3 array) gets past the extraction with a vector of
\* length N and is answered 200 with N shap values; a raw output outside the
\* enumerated variants ends the request with a 500 and shap_values still None;
\* and no request is answered 200 unless its raw output was an enumerated
\* variant and the extracted vector has length N.
C1_ExtractionTotalOnVariants ==
    /\ Answered /\ VariantFor(raw_shap_output, N)
        => /\ response.status = 200
           /\ shap_values.shape = <<N>>
           /\ Len(response.shap_values) = N
    /\ Answered /\ ~EnumeratedVariant(raw_shap_output)
        => response.status = 500 /\ shap_values = None
    /\ Answered /\ ~VariantFor(raw_shap_output, N) => response.status = 500
    /\ response.status = 200
        => EnumeratedVariant(raw_shap_output) /\ shap_values.shape = <<N>>

\* C1 witness: a rank-3 array of N features was extracted and answered 200.
C1_Witness ==
    /\ Answered
    /\ IsNdArray(raw_shap_output)
    /\ ndim(raw_shap_output) = 3
    /\ response.status = 200
    /\ shap_values.shape = <<N>>

\* C2: when the raw output is a two-element list whose element 1 is an
\* ndarray, the extracted vector is row 0 of element 1 if element 1 is rank-2
\* (and has a row) and element 1 itself if it is rank-1, whatever element 0
\* is; element 1 = [[0.1, -0.2, 0.05, 0.0, 0.15]] yields
\* [0.1, -0.2, 0.05, 0.0, 0.15].
C2_PositiveClassOfTwoElementList ==
    Extracted /\ TwoClassList(raw_shap_output)
        => LET a == Item(raw_shap_output, 1)
           IN  /\ ndim(a) = 2 /\ a.shape[1] >= 1 => shap_values = Row(a, 0)
               /\ ndim(a) = 1 => shap_values = a
               /\ a = ScenarioArray
                    => shap_values.data = <<1000, -2000, 500, 0, 1500>>

\* C2 witness: the list [[[..]], [[0.1, -0.2, 0.05, 0.0, 0.15]]] was extracted,
\* its element 0 another rank-2 array.
C2_Witness ==
    /\ Extracted
    /\ TwoClassList(raw_shap_output)
    /\ Item(raw_shap_output, 1) = ScenarioArray
    /\ IsNdArray(Item(raw_shap_output, 0))
    /\ Item(raw_shap_output, 0) # ScenarioArray
    /\ shap_values # None

\* C3: when the raw output is a single rank-3 ndarray with at least one
\* instance and at least two classes, the extracted vector is raw[0, :, 1]:
\* for every feature index j its entry j is the cell (0, j, 1); a rank-3 array
\* without instance 0 or class 1 yields no vector.
C3_Rank3Slice ==
    Extracted /\ IsNdArray(raw_shap_output) /\ ndim(raw_shap_output) = 3
        => LET a == raw_shap_output
           IN  IF a.shape[1] >= 1 /\ a.shape[3] >= 2
               THEN /\ shap_values # None
                    /\ shap_values.shape = <<a.shape[2]>>
                    /\ \A j \in 0..(a.shape[2] - 1) :
                            At(shap_values, j) = Cell3(a, 0, j, 1)
               ELSE shap_values = None

\* C3 witness: a rank-3 array of two instances, N features and two classes
\* was sliced.
C3_Witness ==
    /\ Extracted
    /\ IsNdArray(raw_shap_output)
    /\ raw_shap_output.shape = <<2, N, 2>>
    /\ shap_values # None

\* C4: for a non-empty list that is not of the first variant (not two elements
\* with element 1 an ndarray) and whose element 0 is an ndarray, the extracted
\* vector is row 0 of element 0 if element 0 is rank-2 (and has a row) and
\* element 0 itself if it is rank-1; a list of the first variant never falls
\* back to its element 0.
C4_FallbackToElement0 ==
    /\ Extracted /\ OtherList(raw_shap_output)
        => LET a == Item(raw_shap_output, 0)
           IN  /\ ndim(a) = 2 /\ a.shape[1] >= 1 => shap_values = Row(a, 0)
               /\ ndim(a) = 1 => shap_values = a
    /\ Extracted /\ TwoClassList(raw_shap_output)
        /\ (LET b == Item(raw_shap_output, 1)
            IN  ndim(b) \notin {1, 2} \/ (ndim(b) = 2 /\ b.shape[1] = 0))
        => shap_values = None

\* C4 witness: a three-element list whose elements 0 and 2 are different
\* ndarrays, element 0 of rank 2, was extracted.
C4_Witness ==
    /\ Extracted
    /\ OtherList(raw_shap_output)
    /\ Len(raw_shap_output.items) = 3
    /\ ndim(Item(raw_shap_output, 0)) = 2
    /\ IsNdArray(Item(raw_shap_output, 2))
    /\ Item(raw_shap_output, 2) # Item(raw_shap_output, 0)
    /\ shap_values # None

\* C5: when the raw output matches none of the known variants (a scalar, an
\* empty list, a list whose elements are no ndarrays, an array of rank 0 or of
\* rank above 3), the request ends with a 500 whose response carries a detail
\* only: no score, no shap_values, no explanations, and nothing was ranked.
C5_UnrecognizedShapeFails ==
    Answered /\ ~EnumeratedVariant(raw_shap_output)
        => /\ response.status = 500
           /\ DOMAIN response = {"status", "detail"}
           /\ response.detail.stage = "extraction"
           /\ sorted_impacts = <<>>

\* C5 witness: a rank-4 array with N cells ended the request.
C5_Witness ==
    /\ Answered
    /\ IsNdArray(raw_shap_output)
    /\ ndim(raw_shap_output) = 4
    /\ Prod(raw_shap_output.shape) = N
    /\ response.status = 500

\* C6: whenever the extracted vector's length differs from the number of
\* canonical feature names, the request ends with a 500 whose message states
\* the number of feature names and the length of the vector, and the response
\* carries nothing else: no shap_values map, no ranking, no explanations.
C6_LengthMismatchFails ==
    pc = "done" /\ shap_values # None /\ shap_values.shape # <<N>>
        => /\ response.status = 500
           /\ DOMAIN response = {"status", "detail"}
           /\ response.detail.stage = "length"
           /\ response.detail.n_names = N
           /\ response.detail.n_values = shap_values.shape[1]
           /\ sorted_impacts = <<>>

\* C6 witness: a vector of length 4 met the 5 canonical names.
C6_Witness ==
    /\ pc = "done"
    /\ shap_values # None
    /\ shap_values.shape = <<4>>
    /\ Len(feature_names) = 5
    /\ response.status = 500

\* Position of a feature name in the canonical order.
CanonicalIndex(f) ==
    CHOOSE i \in 1..N : expected_feature_order[i] = f

\* C7: the ranked sequence holds every (feature, weight) pair of the
\* attribution vector once, by descending absolute weight, and entries of
\* equal absolute weight (+w and -w included) keep the canonical feature
\* order; the vector [0.1, -0.2, 0.05, 0.0, 0.15] is ranked revenu,
\* score_credit, age, anciennete, nb_incidents.
C7_RankedByAbsStable ==
    response.status = 200
        => /\ Len(sorted_impacts) = N
           /\ \A f \in 1..N :
                \E i \in 1..N :
                    /\ sorted_impacts[i].feature = expected_feature_order[f]
                    /\ sorted_impacts[i].impact = At(shap_values, f - 1)
           /\ \A i, j \in 1..N :
                i < j =>
                    \/ Abs(sorted_impacts[i].impact) > Abs(sorted_impacts[j].impact)
                    \/ /\ Abs(sorted_impacts[i].impact) = Abs(sorted_impacts[j].impact)
                       /\ CanonicalIndex(sorted_impacts[i].feature)
                            < CanonicalIndex(sorted_impacts[j].feature)
           /\ shap_values.data = <<1000, -2000, 500, 0, 1500>>
                => [i \in 1..N |-> sorted_impacts[i].feature]
                    = <<"revenu", "score_credit", "age", "anciennete",
                        "nb_incidents">>

\* C7 witness: a ranking in which a weight -w stands right before +w, w > 0,
\* behind a larger weight and before a zero.
C7_Witness ==
    /\ response.status = 200
    /\ \E i \in 2..(N - 2) :
        /\ sorted_impacts[i].impact < 0
        /\ sorted_impacts[i + 1].impact = -sorted_impacts[i].impact
        /\ Abs(sorted_impacts[1].impact) >= Abs(sorted_impacts[i].impact)
        /\ sorted_impacts[N].impact = 0

\* The weight the response's shap_values map gives a feature.
ImpactOf(f) ==
    (CHOOSE it \in Range(response.shap_values) : it.feature = f).impact

\* C8: explanation i is about the i-th ranked feature, and its direction term
\* is "positivement" exactly when that feature's weight is > 0 and
\* "négativement" otherwise; a zero weight reads "négativement" and is ranked
\* behind every nonzero weight of either sign.
C8_DirectionAndZeroLast ==
    response.status = 200
        => /\ Len(response.explanations) = N
           /\ \A i \in 1..N :
                LET e == response.explanations[i]
                IN  /\ e.feature = sorted_impacts[i].feature
                    /\ e.direction \in {"positivement", "négativement"}
                    /\ e.direction = "positivement" <=> ImpactOf(e.feature) > 0
                    /\ ImpactOf(e.feature) = 0 =>
                        /\ e.direction = "négativement"
                        /\ \A j \in 1..N :
                            ImpactOf(response.explanations[j].feature) # 0
                                => j < i

\* C8 witness: explanations with a positive, a negative and a zero weight.
C8_Witness ==
    /\ response.status = 200
    /\ \E i, j, k \in 1..N :
        /\ ImpactOf(response.explanations[i].feature) > 0
        /\ ImpactOf(response.explanations[j].feature) < 0
        /\ ImpactOf(response.explanations[k].feature) = 0

\* The value the client mapping gives a key.
ValueOf(items, k) == (CHOOSE it \in Range(items) : it.key = k).value

\* Every canonical feature name is a key of the client mapping.
Complete(items) ==
    \A k \in Range(expected_feature_order) : \E it \in Range(items) : it.key = k

\* C9: for a client mapping holding all canonical feature names, both oracles
\* are handed the values in the canonical order [age, revenu, anciennete,
\* nb_incidents, score_credit] whatever the key order of the mapping, and the
\* feature names paired with the attribution vector are in that order too.
C9_CanonicalOrder ==
    /\ \A c \in 1..Len(calls) :
        /\ calls[c].arg.columns = expected_feature_order
        /\ calls[c].arg.row =
            [i \in 1..N |-> ValueOf(data, expected_feature_order[i])]
    /\ pc \in {"check_length", "done"} /\ shap_values # None
        => feature_names = expected_feature_order
    /\ response.status = 200
        => [i \in 1..N |-> response.shap_values[i].feature]
            = expected_feature_order
    /\ pc = "done" /\ Complete(data)
        => response.status # 400 /\ calls[1].oracle = "model"

\* C9 witness: a mapping whose keys are not in the canonical order was
\* answered 200 after both oracles were called.
C9_Witness ==
    /\ response.status = 200
    /\ Len(calls) = 2
    /\ [i \in 1..Len(data) |-> data[i].key] # expected_feature_order

\* C10: when a canonical feature is absent from the client mapping, the
\* request ends with a 400 whose message names the absent features, and
\* neither oracle is called for it.
C10_MissingFeatureIsClientError ==
    pc # "receive" /\ ~Complete(data)
        => /\ calls = <<>>
           /\ pc \in {"reindex", "done"}
           /\ pc = "done" =>
                /\ response.status = 400
                /\ Range(response.detail.missing)
                    = {k \in Range(expected_feature_order) :
                        \A it \in Range(data) : it.key # k}

\* C10 witness: a mapping without "revenu" was refused.
C10_Witness ==
    /\ pc = "done"
    /\ \A it \in Range(data) : it.key # "revenu"
    /\ response.status = 400
    /\ response.detail.missing = <<"revenu">>

\* Number of calls of an oracle in the followed request.
CallCount(oracle) ==
    Cardinality({i \in 1..Len(calls) : calls[i].oracle = oracle})

\* The request ended in a server fault.
Faulted == pc = "done" /\ response.status = 500

\* What holds of every state of a request, faults included.
C11_FaultState ==
    /\ CallCount("model") <= 1
    /\ CallCount("explainer") <= 1
    /\ CallCount("explainer") = 1 => CallCount("model") = 1 /\ score # None
    /\ raw_shap_output # None => CallCount("explainer") = 1
    /\ Faulted =>
        /\ DOMAIN response = {"status", "detail"}
        /\ sorted_impacts = <<>>
        /\ response.detail.stage = "predict_proba" =>
            /\ score = None
            /\ CallCount("explainer") = 0
            /\ raw_shap_output = None
            /\ shap_values = None
        /\ response.detail.stage = "shap_values" =>
            /\ raw_shap_output = None
            /\ shap_values = None
        /\ response.detail.stage = "extraction" =>
            /\ raw_shap_output # None
            /\ shap_values = None
        /\ response.detail.stage = "length" =>
            /\ shap_values # None
            /\ feature_names # <<>>

\* The only step from a faulted request is the end of the request.
C11_FaultStep ==
    Faulted =>
        /\ pc' = "receive"
        /\ response' = NoResponse
        /\ calls' = <<>>

\* C11: within one request every server fault (the prediction oracle raising
\* or returning an unusable shape, the explanation oracle raising, an
\* unrecognized attribution shape, a length mismatch) is terminal: the request
\* ends with a 500 carrying no score, shap_values or explanations, each oracle
\* is called at most once, the explanation oracle is called only after a score
\* was obtained, the stages behind the faulting one have left no trace, and
\* nothing but the end of the request follows the fault.
C11_ServerFaultsTerminal == []C11_FaultState /\ [][C11_FaultStep]_vars

\* C11 witness: the prediction oracle faulted; it was called once and the
\* explanation oracle not at all.
C11_Witness ==
    /\ Faulted
    /\ response.detail.stage = "predict_proba"
    /\ CallCount("model") = 1
    /\ CallCount("explainer") = 0

\* C12: when the model file or the explainer file is absent or cannot be
\* loaded, load_resources fails and no request is ever taken; whenever
\* predict runs, and whenever the process serves, both globals are loaded.
C12_StartupFaultsFatal ==
    /\ files.model # "ok" \/ files.explainer # "ok"
        => /\ server # "serving"
           /\ pc = "receive"
           /\ calls = <<>>
           /\ server \notin {"check_files", "load_model", "load_explainer"}
                => server = "failed"
    /\ pc # "receive" \/ server = "serving"
        => /\ server = "serving"
           /\ model = Loaded("model")
           /\ explainer = Loaded("explainer")

\* C12 witness: the explainer file could not be loaded after the model was;
\* the startup failed and no request was taken.
C12_Witness ==
    /\ files.model = "ok"
    /\ files.explainer = "unloadable"
    /\ model = Loaded("model")
    /\ explainer = None
    /\ server = "failed"
    /\ pc = "receive"

\* ------------------------------------------- concurrent calls of predict()
\* The items of a mapping with the given keys and values.
ItemsOf(keys, v) == [i \in 1..Len(keys) |-> [key |-> keys[i], value |-> v[keys[i]]]]

\* The mappings of the concurrent requests: two complete ones that differ in
\* key order and in every value, and one without "revenu".
ThreadInputs ==
    {ItemsOf(expected_feature_order,
             [age |-> 40, revenu |-> 50000, anciennete |-> 5,
              nb_incidents |-> 0, score_credit |-> 700]),
     ItemsOf(Reverse(expected_feature_order),
             [age |-> 700, revenu |-> 0, anciennete |-> 40,
              nb_incidents |-> 5, score_credit |-> 23]),
     ItemsOf(<<"age", "anciennete", "nb_incidents", "score_credit">>,
             [age |-> 40, revenu |-> 50000, anciennete |-> 5,
              nb_incidents |-> 0, score_credit |-> 700])}

\* What model.predict_proba answers a concurrent request.
ThreadProbas == {NdArray(<<1, 2>>, <<3, 7>>), NdArray(<<1>>, <<3>>), Other, Raised}

\* What explainer.shap_values answers a concurrent request.
ThreadRaws ==
    {[kind |-> "list", items |-> <<MkArray(<<1, N>>, 6), ScenarioArray>>],
     NdArray(<<N>>, <<1, -1, 0, 1, 0>>), MkArray(<<1, N, 2>>, 3),
     MkArray(<<N - 1>>, 1), Other, Raised}

\* Thread t's locals become r; nothing else changes.
SetThread(t, r) ==
    /\ threads' = [threads EXCEPT ![t] = r]
    /\ UNCHANGED <<request, process, dashboard>>

TReceive(t) ==
    /\ server = "serving"
    /\ threads[t].pc = "receive"
    /\ \E d \in ThreadInputs :
        SetThread(t, [threads[t] EXCEPT !.pc = "reindex", !.data = d,
                                        !.df = DataFrame(d)])

TReindexOk(t) ==
    /\ threads[t].pc = "reindex"
    /\ MissingColumns(threads[t].df, expected_feature_order) = <<>>
    /\ SetThread(t, [threads[t] EXCEPT
            !.pc = "predict_proba",
            !.df = Reindex(threads[t].df, expected_feature_order)])

TReindexKeyError(t) ==
    /\ threads[t].pc = "reindex"
    /\ MissingColumns(threads[t].df, expected_feature_order) # <<>>
    /\ SetThread(t, [threads[t] EXCEPT
            !.pc = "done",
            !.response =
                ReindexError(MissingColumns(threads[t].df, expected_feature_order))])

TPredictOk(t) ==
    /\ threads[t].pc = "predict_proba"
    /\ model # None
    /\ \E out \in ThreadProbas :
        /\ ExtractScore(out) # Raised
        /\ SetThread(t, [threads[t] EXCEPT
                !.pc = "shap_values", !.prediction_proba = out,
                !.score = ExtractScore(out)])

TPredictFault(t) ==
    /\ threads[t].pc = "predict_proba"
    /\ \E out \in ThreadProbas :
        /\ model = None \/ ExtractScore(out) = Raised
        /\ SetThread(t, [threads[t] EXCEPT
                !.pc = "done", !.prediction_proba = out,
                !.response = PredictionError])

TExplainOk(t) ==
    /\ threads[t].pc = "shap_values"
    /\ explainer # None
    /\ \E out \in ThreadRaws \ {Raised} :
        SetThread(t, [threads[t] EXCEPT
            !.pc = "extract", !.shap_answer = out, !.raw_shap_output = out])

TExplainFault(t) ==
    /\ threads[t].pc = "shap_values"
    /\ SetThread(t, [threads[t] EXCEPT
            !.pc = "done", !.shap_answer = Raised, !.response = ShapError])

\* Bug: shap_values is a module global, written by one call and read by all.
TExtractOk_SharedShapValues(t) ==
    /\ threads[t].pc = "extract"
    /\ ExtractShap(threads[t].raw_shap_output) # None
    /\ threads' =
        [u \in Threads |->
            IF u = t
            THEN [threads[t] EXCEPT
                    !.pc = "check_length",
                    !.shap_values = ExtractShap(threads[t].raw_shap_output),
                    !.feature_names = threads[t].df.columns]
            ELSE [threads[u] EXCEPT
                    !.shap_values = ExtractShap(threads[t].raw_shap_output)]]
    /\ UNCHANGED <<request, process, dashboard>>

TExtractOk(t) ==
    /\ threads[t].pc = "extract"
    /\ ExtractShap(threads[t].raw_shap_output) # None
    /\ SetThread(t, [threads[t] EXCEPT
            !.pc = "check_length",
            !.shap_values = ExtractShap(threads[t].raw_shap_output),
            !.feature_names = threads[t].df.columns])

TExtractFault(t) ==
    /\ threads[t].pc = "extract"
    /\ ExtractShap(threads[t].raw_shap_output) = None
    /\ SetThread(t, [threads[t] EXCEPT
            !.pc = "done", !.response = ExtractionError])

TLengthMismatch(t) ==
    /\ threads[t].pc = "check_length"
    /\ Len(threads[t].feature_names) # len(threads[t].shap_values)
    /\ SetThread(t, [threads[t] EXCEPT
            !.pc = "done",
            !.response =
                MismatchError(threads[t].feature_names, threads[t].shap_values)])

TReport(t) ==
    /\ threads[t].pc = "check_length"
    /\ Len(threads[t].feature_names) = len(threads[t].shap_values)
    /\ LET impacts == ShapImpacts(threads[t].feature_names, threads[t].shap_values)
       IN  SetThread(t, [threads[t] EXCEPT
                !.pc = "done",
                !.response =
                    Success(threads[t].score, impacts,
                            ExplanationList(SortedImpacts(impacts)))])

\* The call returns; the thread takes the next request.
TNextRequest(t) ==
    /\ threads[t].pc = "done"
    /\ SetThread(t, ThreadInit)

NextConcurrent ==
    \/ CheckFilesOk
    \/ CheckFilesFault
    \/ LoadModelOk
    \/ LoadModelFault
    \/ LoadExplainerOk
    \/ LoadExplainerFault
    \/ \E t \in Threads : TReceive(t)
    \/ \E t \in Threads : TReindexOk(t)
    \/ \E t \in Threads : TReindexKeyError(t)
    \/ \E t \in Threads : TPredictOk(t)
    \/ \E t \in Threads : TPredictFault(t)
    \/ \E t \in Threads : TExplainOk(t)
    \/ \E t \in Threads : TExplainFault(t)
    \/ \E t \in Threads : TExtractOk(t)
    \/ \E t \in Threads : TExtractFault(t)
    \/ \E t \in Threads : TLengthMismatch(t)
    \/ \E t \in Threads : TReport(t)
    \/ \E t \in Threads : TNextRequest(t)

SpecConcurrent == Init /\ [][NextConcurrent]_vars

\* What a request with mapping d is answered when the prediction oracle
\* answers proba and the explanation oracle answers raw.
Outcome(d, proba, raw) ==
    LET frame == DataFrame(d)
        absent == MissingColumns(frame, expected_feature_order)
        vector == ExtractShap(raw)
        impacts == ShapImpacts(expected_feature_order, vector)
    IN  IF absent # <<>> THEN ReindexError(absent)
        ELSE IF ExtractScore(proba) = Raised THEN PredictionError
        ELSE IF raw = Raised THEN ShapError
        ELSE IF vector = None THEN ExtractionError
        ELSE IF len(vector) # N THEN MismatchError(expected_feature_order, vector)
        ELSE Success(ExtractScore(proba), impacts,
                     ExplanationList(SortedImpacts(impacts)))

\* The response of every finished call is the outcome of its own mapping and
\* of the answers the oracles gave to it.
C13_OwnInputsOnly ==
    \A t \in Threads :
        threads[t].pc = "done"
            => threads[t].response =
                Outcome(threads[t].data, threads[t].prediction_proba,
                        threads[t].shap_answer)

\* The globals are assigned by the startup only, before any call runs, and a
\* step of one call changes the locals of no other call.
C13_NoSharedWrite ==
    /\ model' # model \/ explainer' # explainer
        => /\ server \in {"load_model", "load_explainer"}
           /\ \A t \in Threads : threads[t] = ThreadInit
    /\ \A t \in Threads :
        threads[t].pc # "receive"
            => /\ model' = model
               /\ explainer' = explainer
               /\ model = Loaded("model")
               /\ explainer = Loaded("explainer")
    /\ \A t, u \in Threads :
        threads'[t] # threads[t] /\ u # t => threads'[u] = threads[u]

\* C13: under every interleaving of concurrent predict() calls, the model and
\* the explainer are assigned during startup only and no step of a call
\* changes them or the locals of another call, so the response of each call
\* is determined by its own mapping and the oracles' answers to it (the
\* canonical feature order is a constant no step assigns).
C13_NoSharedMutableState == []C13_OwnInputsOnly /\ [][C13_NoSharedWrite]_vars

\* C13 witness: one call was answered 200 while another, with another mapping
\* and another raw attribution output, stands before its length check.
C13_Witness ==
    \E t, u \in Threads :
        /\ threads[t].pc = "done"
        /\ threads[t].response.status = 200
        /\ threads[u].pc = "check_length"
        /\ threads[u].data # threads[t].data
        /\ threads[u].raw_shap_output # threads[t].raw_shap_output
        /\ threads[u].shap_values # threads[t].shap_values


\* ============================================================ the dashboard
\* src/streamlit_app.py. One run of the script is one step: Streamlit runs
\* the on_change callback and then the script from top to bottom for each
\* interaction of the one browser session.

\* The index of the clients table after reset_index().
Clients == 0..(NumClients - 1)

\* The row of client c in data/clients.csv.
ClientRow(c) ==
    [age |-> 40 + c, revenu |-> 50000 + c, anciennete |-> 5 + c,
     nb_incidents |-> c, score_credit |-> 700 + c]

\* input_data: the five features of the selected client, in this key order.
InputData(c) ==
    ItemsOf(<<"age", "revenu", "anciennete", "nb_incidents", "score_credit">>,
            ClientRow(c))

\* What model.predict_proba answers a request of the dashboard.
DashboardProbas ==
    {NdArray(<<1, 2>>, <<3, 7>>), NdArray(<<1, 2>>, <<1, 9>>),
     NdArray(<<1>>, <<4>>), Raised}

\* What explainer.shap_values answers a request of the dashboard: a row with
\* a zero weight, a vector of nonzero weights that all round to 0.000, a
\* vector of weights of several digits, a vector one value short, a fault.
DashboardRaws ==
    {ScenarioArray, NdArray(<<N>>, <<1, -1, 1, -1, 1>>),
     NdArray(<<N>>, <<12346, -2280, 4, -100000, 2280>>),
     MkArray(<<N - 1>>, 1), Raised}

\* The responses predict() gives to the request for client c.
ApiResponses(c) ==
    {Outcome(InputData(c), proba, raw) :
        proba \in DashboardProbas, raw \in DashboardRaws}

\* res.json(): the returned dict of a 200 response, the detail of an error.
JsonBody(r) ==
    IF r.status = 200
    THEN [score |-> r.score, shap_values |-> r.shap_values,
          explanations |-> r.explanations]
    ELSE [detail |-> r.detail]

\* What requests.post can bring back for client c: no connection, no answer
\* within the timeout, a response of predict(), and two bodies of a server
\* that is not this API (one without "explanations", one without "score").
ApiReplies(c) ==
    {[kind |-> "ConnectionError"], [kind |-> "Timeout"]}
    \cup {[kind |-> "response", status |-> r.status, body |-> JsonBody(r)] :
            r \in ApiResponses(c)}
    \cup {[kind |-> "response", status |-> 200, body |-> [score |-> Score(7)]],
          [kind |-> "response", status |-> 200, body |-> [message |-> "ok"]]}

\* The try block of the score button runs to its end: the call came back, the
\* status is no error (raise_for_status), the body has the key "score".
TryCompletes(reply) ==
    /\ reply.kind = "response"
    /\ reply.status < 400
    /\ "score" \in DOMAIN reply.body

\* response_data.get("explanations", [])
GetExplanations(body) ==
    IF "explanations" \in DOMAIN body THEN body.explanations ELSE <<>>

\* ------------------------------------------------------------ session state
\* del st.session_state[key], if the key is there.
DelKey(s, key) == [k \in (DOMAIN s) \ {key} |-> s[k]]

\* st.session_state[key] = value
SetKey(s, key, value) ==
    [k \in (DOMAIN s) \cup {key} |-> IF k = key THEN value ELSE s[k]]

reset_scoring_state(s) ==
    SetKey(DelKey(DelKey(s, "score"), "explanations"), "api_called", FALSE)

\* if 'api_called' not in st.session_state: ... = False
InitApiCalled(s) ==
    IF "api_called" \in DOMAIN s THEN s ELSE SetKey(s, "api_called", FALSE)

\* The three stores at the end of the try block.
StoreResults(s, body) ==
    SetKey(SetKey(SetKey(s, "score", body.score),
                  "explanations", GetExplanations(body)),
           "api_called", TRUE)

\* ------------------------------------------------- _parse_shap_explanation
\* The characters of a decimal digit and of a natural number.
DigitChar(d) == <<"0", "1", "2", "3", "4", "5", "6", "7", "8", "9">>[d + 1]

RECURSIVE IntText(_)
IntText(n) ==
    IF n < 10 THEN <<DigitChar(n)>>
    ELSE IntText(n \div 10) \o <<DigitChar(n % 10)>>

\* The characters f"{impact:.3f}" writes for a formatted weight: "-" for a
\* negative weight, the integer part, ".", three decimals.
WeightText(poids) ==
    (IF poids.minus THEN <<"-">> ELSE <<>>)
    \o IntText(poids.thousandths \div 1000)
    \o <<".">>
    \o <<DigitChar((poids.thousandths \div 100) % 10),
         DigitChar((poids.thousandths \div 10) % 10),
         DigitChar(poids.thousandths % 10)>>

IsDigit(ch) == ch \in {"0", "1", "2", "3", "4", "5", "6", "7", "8", "9"}

\* The length of the longest run of digits at the start of text.
RECURSIVE DigitRun(_)
DigitRun(text) ==
    IF text # <<>> /\ IsDigit(Head(text)) THEN 1 + DigitRun(Tail(text)) ELSE 0

\* (\d+\.?\d*) at the start of text: the group's characters, <<>> for no match.
MatchUnsigned(text) ==
    LET whole == DigitRun(text)
        rest == SubSeq(text, whole + 1, Len(text))
        dot == IF rest # <<>> /\ Head(rest) = "." THEN 1 ELSE 0
        frac == DigitRun(SubSeq(rest, dot + 1, Len(rest)))
    IN  IF whole = 0 THEN <<>> ELSE SubSeq(text, 1, whole + dot + frac)

\* (-\d+\.?\d*) at the start of text: the group's characters, <<>> for no match.
MatchSigned(text) ==
    IF text # <<>> /\ Head(text) = "-" /\ MatchUnsigned(Tail(text)) # <<>>
    THEN <<"-">> \o MatchUnsigned(Tail(text))
    ELSE <<>>

\* The explanation string is given by its three variable parts; the literal
\* parts of a pattern match it when the direction word is the pattern's (a
\* canonical feature name is nonempty and has no quote in it), and then the
\* last group is matched against the characters of the weight.
match_positive(e) ==
    IF e.direction = "positivement" THEN MatchUnsigned(WeightText(e.poids)) ELSE <<>>

match_negative(e) ==
    IF e.direction = "négativement" THEN MatchSigned(WeightText(e.poids)) ELSE <<>>

\* The returned tuple, without the arrow: the branch taken, the feature the
\* description names, the value string, est_positif.
parse_shap_explanation(e) ==
    IF match_positive(e) # <<>>
    THEN [branch |-> "positive", feature |-> e.feature,
          value |-> match_positive(e), is_positive |-> TRUE]
    ELSE IF match_negative(e) # <<>>
    THEN [branch |-> "negative", feature |-> e.feature,
          value |-> match_negative(e), is_positive |-> FALSE]
    ELSE [branch |-> "default", feature |-> e.feature,
          value |-> <<>>, is_positive |-> FALSE]

\* ------------------------------------------------------------ the rendering
\* The line under the gauge.
Verdict(sc) ==
    IF sc.value > 8 THEN "Éligible"
    ELSE IF sc.value > 5 THEN "Potentiellement éligible"
    ELSE "Inéligible probable"

\* What the end of the script shows for session state s: the gauge with the
\* score and one factor for each explanation, or the two invitations.
Render(s) ==
    IF s["api_called"]
    THEN [kind |-> "result", score |-> s["score"], verdict |-> Verdict(s["score"]),
          factors |-> [i \in 1..Len(s["explanations"]) |->
                          parse_shap_explanation(s["explanations"][i])]]
    ELSE [kind |-> "info"]


\* ------------------------------------------------------------- interactions
\* A step of the dashboard leaves the API alone.
not_dashboard == <<request, process, threads>>

\* The first run of the script in a new browser session.
FirstRun ==
    /\ display.kind = "none"
    /\ session' = InitApiCalled(session)
    /\ display' = Render(session')
    /\ last_event' = "first_run"
    /\ UNCHANGED <<selected_id, last_success, not_dashboard>>

\* Bug: the selectbox has no on_change callback.
SelectClient_NoCallback(c) ==
    /\ display.kind # "none"
    /\ c # selected_id
    /\ selected_id' = c
    /\ session' = InitApiCalled(session)
    /\ display' = Render(session')
    /\ last_event' = "select"
    /\ UNCHANGED <<last_success, not_dashboard>>

\* The adviser picks another client: the on_change callback runs, then the
\* script.
SelectClient(c) ==
    /\ display.kind # "none"
    /\ c # selected_id
    /\ selected_id' = c
    /\ session' = InitApiCalled(reset_scoring_state(session))
    /\ display' = Render(session')
    /\ last_event' = "select"
    /\ UNCHANGED <<last_success, not_dashboard>>

\* A click on the score button whose try block runs to its end.
ScoreOk ==
    /\ display.kind # "none"
    /\ \E reply \in ApiReplies(selected_id) :
        /\ TryCompletes(reply)
        /\ session' = StoreResults(InitApiCalled(session), reply.body)
        /\ last_success' = [client |-> selected_id, body |-> reply.body]
    /\ display' = Render(session')
    /\ last_event' = "success"
    /\ UNCHANGED <<selected_id, not_dashboard>>

\* A click on the score button that ends in one of the three except clauses.
ScoreFault ==
    /\ display.kind # "none"
    /\ \E reply \in ApiReplies(selected_id) :
        /\ ~TryCompletes(reply)
        /\ session' = reset_scoring_state(InitApiCalled(session))
    /\ display' = Render(session')
    /\ last_event' = "failure"
    /\ UNCHANGED <<selected_id, last_success, not_dashboard>>

\* Any other interaction runs the script again with the button not clicked.
Rerun ==
    /\ display.kind # "none"
    /\ session' = InitApiCalled(session)
    /\ display' = Render(session')
    /\ last_event' = "rerun"
    /\ UNCHANGED <<selected_id, last_success, not_dashboard>>

NextDashboard ==
    \/ FirstRun
    \/ \E c \in Clients : SelectClient(c)
    \/ ScoreOk
    \/ ScoreFault
    \/ Rerun

\* One browser session in front of an API whose files are in place.
InitBrowser == Init /\ files = [model |-> "ok", explainer |-> "ok"]

SpecDashboard == InitBrowser /\ [][NextDashboard]_vars

\* ---------------------------------------------------------------- C14, C15
\* The results on display are a response of predict().
ShowsApiResult ==
    /\ display.kind = "result"
    /\ last_success # None
    /\ "shap_values" \in DOMAIN last_success.body

\* The weight predict() returned for feature f in the last successful scoring.
ReturnedWeight(f) ==
    (CHOOSE it \in Range(last_success.body.shap_values) : it.feature = f).impact

\* C14: every explanation string predict() emits (a canonical feature name, a
\* weight formatted to 3 decimals, zero and weights rounding to 0.000
\* included) is matched by one of the two patterns of
\* _parse_shap_explanation, which returns a nonempty value string and
\* is_positive equal to (weight > 0); the default branch is never taken.
C14_ParserMatchesEveryApiString ==
    ShowsApiResult
        => \A i \in DOMAIN display.factors :
            /\ display.factors[i].branch \in {"positive", "negative"}
            /\ display.factors[i].value # <<>>
            /\ display.factors[i].is_positive
                = (ReturnedWeight(display.factors[i].feature) > 0)

\* What the parser does with the strings of predict(): the default branch is
\* taken for the weights that are exactly zero and for no other, the value is
\* the text of the weight otherwise, and est_positif is (weight > 0) always.
ParserMissesZeroWeightsOnly ==
    ShowsApiResult
        => \A i \in DOMAIN display.factors :
            LET factor == display.factors[i]
                weight == ReturnedWeight(factor.feature)
            IN  /\ factor.branch = "default" <=> weight = 0
                /\ factor.is_positive = (weight > 0)
                /\ weight # 0 => factor.value = WeightText(Format3f(weight))

\* A zero weight was displayed, and so was a nonzero weight that rounds to
\* 0.000.
ParserSawZeroAndRounded ==
    /\ ShowsApiResult
    /\ \E i \in DOMAIN display.factors :
        \/ ReturnedWeight(display.factors[i].feature) = 0
        \/ /\ ReturnedWeight(display.factors[i].feature) # 0
           /\ display.factors[i].value \in {<<"0", ".", "0", "0", "0">>,
                                             <<"-", "0", ".", "0", "0", "0">>}

HasKey(key) == key \in DOMAIN session

\* C15: api_called is true only if 'score' and 'explanations' are in the
\* session state and are those of the last successful scoring, which was of
\* the client selected now; a client change or a failed call leaves
\* api_called false with 'score' and 'explanations' removed; the score on
\* display is never that of another client.
C15_SessionStateConsistent ==
    /\ display.kind # "none" => HasKey("api_called")
    /\ HasKey("api_called") /\ session["api_called"]
        => /\ HasKey("score") /\ HasKey("explanations")
           /\ last_success # None
           /\ last_success.client = selected_id
           /\ session["score"] = last_success.body.score
           /\ session["explanations"] = GetExplanations(last_success.body)
    /\ last_event \in {"select", "failure"}
        => /\ session["api_called"] = FALSE
           /\ ~HasKey("score") /\ ~HasKey("explanations")
           /\ display.kind = "info"
    /\ last_event = "success" => session["api_called"] = TRUE
    /\ display.kind = "result"
        => /\ last_success # None
           /\ last_success.client = selected_id
           /\ display.score = last_success.body.score

\* C15 witness: a client was scored with success and then another client was
\* selected, so the invitation is on display and no score.
C15_Witness ==
    /\ last_event = "select"
    /\ last_success # None
    /\ last_success.client # selected_id
    /\ display.kind = "info"

====
